---- MODULE Spec2Model ----
(***************************************************************************)
(* State-machine model of DiscordKeepAlive (src/keepalive.py): the gateway *)
(* session manager, its connect loop, the WebSocketApp callbacks, the      *)
(* heartbeat thread, the status updater thread and the reconnect / resume  *)
(* paths.                                                                  *)
(*                                                                         *)
(* Granularity: a thread runs atomically from one blocking call to the     *)
(* next (time.sleep, run_forever waiting for the socket).  Every sleep is  *)
(* a point where the other threads may run.  The connect loop is split     *)
(* once more, between the test of its while condition and the creation of  *)
(* the transport, where stop() can come in.                                *)
(***************************************************************************)
EXTENDS Integers, Sequences, FiniteSets, TLC

\* ---------------------------------------------------------------- bounds
\* connect() activations that may be on the call stacks at once
MaxFrames == 2
\* largest sequence number the gateway sends in a dispatch frame
MaxSeq == 2
\* connection attempts (WebSocketApp objects created) in one run of the full model
MaxConns == 3
\* connection attempts in one run of the connect loop on its own
LoopConns == 12

\* ------------------------------------------------------ program constants
max_reconnect_attempts == 10
max_missed_heartbeats == 3
max_retries == 3
BackoffCap == 30
DefaultInterval == 41250

\* --------------------------------------------------------------- domains
Threads == {"conn", "hb"}
\* ... and the status updater thread, which runs no connect() and no handler
Procs == Threads \cup {"st"}
Slots == 1..MaxFrames
SessionIds == {"abc123"}
Intervals == {45000}
None == "none"

VARIABLES
    running,             \* self.running
    ws,                  \* self.ws: 0 is None, else the WebSocketApp object
    sock,                \* the WebSocketApp objects: transport state
    heartbeat_interval,  \* self.heartbeat_interval
    sequence,            \* self.sequence: 0 is None
    session_id,          \* self.session_id: "none" is None
    ackFresh,            \* last_heartbeat_ack is within 2 intervals of now
    reconnect_attempts,  \* self.reconnect_attempts
    pc,                  \* where each thread is
    stack,               \* per thread: the transports of its connect() activations
    missed,              \* heartbeat_loop's local missed_heartbeats
    att,                 \* send_json: failed attempts so far of the pending send
    pend,                \* send_json: the payload being retried
    quota,               \* connection attempts the run may still make (model bound)
    wire,                \* the frame this step put on the wire of self.ws, if any
    hist                 \* observations the properties are stated on

vars == <<running, ws, sock, heartbeat_interval, sequence, session_id, ackFresh,
          reconnect_attempts, pc, stack, missed, att, pend, quota, wire, hist>>

\* A WebSocketApp object.  st: none (no object in this slot), unopened (created,
\* run_forever is connecting), open, closed.  hello / ident / seen record what
\* happened on this transport: Hello received, Identify sent, READY received,
\* last sequence number received.
NoSock == [st |-> "none", hello |-> FALSE, ident |-> FALSE, ready |-> FALSE, seen |-> 0]
NewSock == [st |-> "unopened", hello |-> FALSE, ident |-> FALSE, ready |-> FALSE, seen |-> 0]
\* a closed transport: nothing can be sent on it or received from it any more
ShutSock == [st |-> "closed", hello |-> FALSE, ident |-> FALSE, ready |-> FALSE, seen |-> 0]

NoPayload == [sid |-> None, seq |-> 0, rsid |-> None, rseq |-> 0]
NoFrame == [op |-> 0, sid |-> None, seq |-> 0, rsid |-> None, rseq |-> 0,
            hello |-> FALSE, ident |-> FALSE, ready |-> FALSE, seen |-> 0,
            late |-> FALSE]

Min(a, b) == IF a <= b THEN a ELSE b

RECURSIVE Pow2(_)
Pow2(n) == IF n = 0 THEN 1 ELSE 2 * Pow2(n - 1)

\* wait_time = min(2 ** self.reconnect_attempts, 30)
BackoffNoCap(n) == Pow2(n)
Backoff(n) == Min(Pow2(n), BackoffCap)

Top(th) == stack[th][Len(stack[th])]
SetTop(th, w) == [stack EXCEPT ![th] = [@ EXCEPT ![Len(@)] = w]]
Pop(th) == [stack EXCEPT ![th] = SubSeq(@, 1, Len(@) - 1)]
NFrames == Len(stack["conn"]) + Len(stack["hb"])
\* the WebSocketApp objects some connect() activation is running
Held(stk) == UNION {{stk[th][i] : i \in 1..Len(stk[th])} : th \in Threads} \ {0}
\* objects nothing refers to any more are dropped
Collect(sk, stk, w) == [s \in Slots |-> IF s \in Held(stk) \cup {w} THEN sk[s] ELSE NoSock]
Live(s) == sock[s].st \in {"unopened", "open"}

\* self.ws and self.ws.sock and self.ws.sock.connected
ConnectedAny == ws # 0
Connected == ws # 0 /\ sock[ws].st = "open"

\* self.ws.close(): in reconnect() and stop()
CloseWs(sk) == IF ws # 0 /\ sk[ws].st \in {"unopened", "open"}
               THEN [sk EXCEPT ![ws] = ShutSock] ELSE sk

HbAlive == pc["hb"] \notin {"none", "dead"}
\* self.status_updater_thread exists and is_alive()
StAlive == pc["st"] \notin {"none", "dead"}

HistInit == [staleCnt |-> 0, hbCalls |-> 0, ackEver |-> FALSE,
             lastDelay |-> 0, mono |-> TRUE, monoRun |-> TRUE, openedSince |-> FALSE,
             sidOld |-> FALSE, helloEver |-> FALSE, tries |-> 0, net |-> 0,
             stops |-> 0, lateOpen |-> FALSE, capLog |-> "unreached",
             twoLoops |-> FALSE]

Init ==
    /\ running = TRUE
    /\ ws = 0
    /\ sock = [s \in Slots |-> NoSock]
    /\ heartbeat_interval = DefaultInterval
    /\ sequence = 0
    /\ session_id = None
    /\ ackFresh = TRUE
    /\ reconnect_attempts = 0
    /\ pc = [th \in Procs |-> IF th = "conn" THEN "idle" ELSE "none"]
    /\ stack = [th \in Threads |-> <<>>]
    /\ missed = 0
    /\ att = [th \in Threads |-> 0]
    /\ pend = [th \in Threads |-> NoPayload]
    /\ quota = MaxConns
    /\ wire = NoFrame
    /\ hist = HistInit

\* ------------------------------------------------------------ observations
\* a backoff delay d is waited: how it compares with the delay before it
NoteDelay(h, d) ==
    [h EXCEPT !.lastDelay = d,
              !.mono = (h.lastDelay = 0 \/ h.lastDelay <= d),
              !.monoRun = (h.lastDelay = 0 \/ h.openedSince \/ h.lastDelay <= d),
              !.openedSince = FALSE]
\* a connection attempt is made: attempts so far with no Hello ever received
NoteTry(h) ==
    [h EXCEPT !.tries = IF h.helloEver THEN 0
                        ELSE Min(h.tries + 1, max_reconnect_attempts + 1),
              !.net = h.net + 1,
              !.lateOpen = @ \/ h.stops > 0]
\* a transport goes from unopened / open to closed while running
NoteClose(h, changed) ==
    IF running /\ changed THEN [h EXCEPT !.net = h.net - 1] ELSE h

\* connect() leaves its loop: the level of the log entry it emits when it does so
\* with the attempts used up (none: no statement follows the while loop)
ExhaustLog == "none"
NoteReturn(h) ==
    IF running /\ reconnect_attempts >= max_reconnect_attempts
    THEN [h EXCEPT !.capLog = ExhaustLog] ELSE h

\* ------------------------------------------------------------ start()
\* start(): the connection thread is created and runs connect()
Start ==
    /\ pc["conn"] = "idle"
    /\ pc' = [pc EXCEPT !["conn"] = "c_loop"]
    /\ stack' = [stack EXCEPT !["conn"] = <<0>>]
    /\ UNCHANGED <<quota, running, ws, sock, heartbeat_interval, sequence, session_id, ackFresh,
                   reconnect_attempts, missed, att, pend, hist>>
    /\ wire' = NoFrame

\* ------------------------------------------------------------ connect()
\* while self.running and self.reconnect_attempts < self.max_reconnect_attempts
LoopGuard == running /\ reconnect_attempts < max_reconnect_attempts

\* while self.running: at the top of heartbeat_loop
HbTop == IF running THEN "hb_sleep" ELSE "dead"
\* while self.running: at the top of status_updater_loop
StTop == IF running THEN "st_sleep" ELSE "dead"
\* heartbeat_loop after its reconnect() returned: break
HbBreak == "dead"

\* where a thread goes on when its connect() has returned: the handler that called
\* reconnect() returns into the outer run_forever; heartbeat_loop breaks; the
\* connection thread ends
Resumed(th, stk) == IF Len(stk[th]) > 0 THEN "c_run"
                    ELSE IF th = "hb" THEN HbBreak ELSE "done"

\* connect() returns
Return(th) ==
    LET stk == Pop(th) IN
    /\ stack' = stk
    /\ sock' = Collect(sock, stk, ws)
    /\ pc' = [pc EXCEPT ![th] = Resumed(th, stk)]

\* one iteration: a new WebSocketApp is stored in self.ws and run_forever starts on
\* it; stk is the call stack, its top the activation that iterates
OpenNew(th, stk) ==
    LET others == Held([stk EXCEPT ![th] = [@ EXCEPT ![Len(@)] = 0]])
        new == CHOOSE s \in Slots \ others : \A t \in Slots \ others : s <= t
        stk2 == [stk EXCEPT ![th] = [@ EXCEPT ![Len(@)] = new]]
    IN /\ quota > 0
       /\ quota' = quota - 1
       /\ ws' = new
       /\ stack' = stk2
       /\ sock' = [Collect(sock, stk2, 0) EXCEPT ![new] = NewSock]
       /\ pc' = [pc EXCEPT ![th] = "c_run"]
       /\ hist' = NoteTry(hist)
       /\ wire' = NoFrame

\* the while condition holds (at the start, or after the backoff sleep).  The
\* other threads can run between this test and the creation of the transport:
\* stop() may come in between.
ConnectCheck(th) ==
    /\ pc[th] = "c_loop"
    /\ LoopGuard
    /\ pc' = [pc EXCEPT ![th] = "c_new"]
    /\ UNCHANGED <<quota, running, ws, sock, heartbeat_interval, sequence, session_id,
                   ackFresh, reconnect_attempts, stack, missed, att, pend, hist>>
    /\ wire' = NoFrame

\* the body of the loop: the WebSocketApp is created and run
ConnectAttempt(th) ==
    /\ pc[th] = "c_new"
    /\ OpenNew(th, stack)
    /\ UNCHANGED <<running, heartbeat_interval, sequence, session_id, ackFresh,
                   reconnect_attempts, missed, att, pend>>

\* the while condition is false: connect() returns
ConnectReturn(th) ==
    /\ pc[th] = "c_loop"
    /\ ~LoopGuard
    /\ Return(th)
    /\ hist' = NoteReturn(hist)
    /\ UNCHANGED <<quota, running, ws, heartbeat_interval, sequence, session_id, ackFresh,
                   reconnect_attempts, missed, att, pend>>
    /\ wire' = NoFrame

\* run_forever returned and self.running: count the attempt, sleep the backoff
ClosedRetry(th) ==
    /\ pc[th] = "c_run"
    /\ sock[Top(th)].st = "closed"
    /\ running
    /\ reconnect_attempts' = reconnect_attempts + 1
    /\ hist' = NoteDelay(hist, Backoff(reconnect_attempts + 1))
    /\ pc' = [pc EXCEPT ![th] = "c_loop"]
    /\ UNCHANGED <<quota, running, ws, sock, heartbeat_interval, sequence, session_id, ackFresh,
                   stack, missed, att, pend>>
    /\ wire' = NoFrame

\* run_forever returned and not self.running: break
ClosedBreak(th) ==
    /\ pc[th] = "c_run"
    /\ sock[Top(th)].st = "closed"
    /\ ~running
    /\ Return(th)
    /\ UNCHANGED <<quota, running, ws, heartbeat_interval, sequence, session_id, ackFresh,
                   reconnect_attempts, missed, att, pend, hist>>
    /\ wire' = NoFrame

\* the except branch: the attempt raised; counted whatever self.running is
ConnectRaises(th) ==
    /\ pc[th] = "c_run"
    /\ sock[Top(th)].st = "unopened"
    /\ sock' = [sock EXCEPT ![Top(th)] = ShutSock]
    /\ reconnect_attempts' = reconnect_attempts + 1
    /\ hist' = NoteDelay(NoteClose(hist, TRUE), Backoff(reconnect_attempts + 1))
    /\ pc' = [pc EXCEPT ![th] = "c_loop"]
    /\ UNCHANGED <<quota, running, ws, heartbeat_interval, sequence, session_id, ackFresh,
                   stack, missed, att, pend>>
    /\ wire' = NoFrame

\* ------------------------------------------------------------ the transport
\* on_open: the connection is established
OnOpenReset(n) == 0
on_open(th) ==
    /\ pc[th] = "c_run"
    /\ sock[Top(th)].st = "unopened"
    /\ sock' = [sock EXCEPT ![Top(th)].st = "open"]
    /\ reconnect_attempts' = OnOpenReset(reconnect_attempts)
    /\ hist' = [hist EXCEPT !.openedSince = TRUE]
    /\ UNCHANGED <<quota, running, ws, heartbeat_interval, sequence, session_id, ackFresh,
                   pc, stack, missed, att, pend>>
    /\ wire' = NoFrame

\* the connection cannot be established (on_error, then on_close)
SockFail(th) ==
    /\ pc[th] = "c_run"
    /\ sock[Top(th)].st = "unopened"
    /\ sock' = [sock EXCEPT ![Top(th)] = ShutSock]
    /\ hist' = NoteClose(hist, TRUE)
    /\ UNCHANGED <<quota, running, ws, heartbeat_interval, sequence, session_id, ackFresh,
                   reconnect_attempts, pc, stack, missed, att, pend>>
    /\ wire' = NoFrame

\* the gateway or the network closes an open connection
SockDrop(th) ==
    /\ pc[th] = "c_run"
    /\ sock[Top(th)].st = "open"
    /\ sock' = [sock EXCEPT ![Top(th)] = ShutSock]
    /\ hist' = NoteClose(hist, TRUE)
    /\ UNCHANGED <<quota, running, ws, heartbeat_interval, sequence, session_id, ackFresh,
                   reconnect_attempts, pc, stack, missed, att, pend>>
    /\ wire' = NoFrame

\* ------------------------------------------------------------ send_json
\* the frame as it goes out on self.ws, with what that transport has seen so far
FrameOf(op, p, sk) ==
    [op |-> op, sid |-> p.sid, seq |-> p.seq, rsid |-> p.rsid, rseq |-> p.rseq,
     hello |-> sk[ws].hello, ident |-> sk[ws].ident, ready |-> sk[ws].ready,
     seen |-> sk[ws].seen,
     late |-> (op = 1 /\ hist.hbCalls > 0)]

\* for attempt in range(max_retries): one more attempt is left after `failed` failures
RetriesNone(failed) == FALSE
RetriesLeft(failed) == failed + 1 < max_retries

\* if not hasattr(self, 'heartbeat_thread') or not self.heartbeat_thread.is_alive()
StartHbAlways == TRUE
StartHb == ~HbAlive

\* identify(): the payload carries the token and the presence, no session state
IdentifyPayload == NoPayload
\* "d": self.sequence if self.sequence else None
HeartbeatPayload == [NoPayload EXCEPT !.seq = sequence]
\* resume(): if self.session_id and self.sequence
ResumeReadyEither == session_id # None \/ sequence # 0
ResumeReady == session_id # None /\ sequence # 0
\* "session_id": self.session_id, "seq": self.sequence
ResumePayload == [sid |-> session_id, seq |-> sequence, rsid |-> session_id, rseq |-> sequence]

\* ------------------------------------------------------------ on_message
\* if data.get('s'): self.sequence = data['s']
SeqKeep(s, cur) == cur
SeqUpdate(s, cur) == IF s # 0 THEN s ELSE cur

\* on_message runs in the thread that is in run_forever on the transport.  The
\* gateway's order of frames on one connection: Hello first and once; READY in
\* answer to Identify; other dispatches after READY; op 11, op 9 and op 7 after
\* Hello.
Receiving(th) == pc[th] = "c_run" /\ sock[Top(th)].st = "open"

\* the Identify frame is on the wire of self.ws
Identified(sk) ==
    /\ sock' = [sk EXCEPT ![ws].ident = TRUE]
    /\ wire' = FrameOf(2, IdentifyPayload, sk)

\* after identify(): the handler tests whether a heartbeat thread is alive; if
\* none is, it goes on to create and start one, else it returns
HelloDone(th, h) ==
    /\ pc' = [pc EXCEPT ![th] = IF StartHb THEN "h_start" ELSE "c_run"]
    /\ missed' = missed
    /\ hist' = h

\* op 10: store the interval, identify(), start the heartbeat thread
OnHello(th, iv) ==
    /\ Receiving(th)
    /\ ~sock[Top(th)].hello
    /\ heartbeat_interval' = iv
    /\ LET sk == [sock EXCEPT ![Top(th)].hello = TRUE]
           h == [hist EXCEPT !.helloEver = TRUE, !.tries = 0]
       IN IF Connected
          THEN /\ Identified(sk)
               /\ HelloDone(th, [h EXCEPT !.sidOld = (session_id # None)])
               /\ UNCHANGED att
          ELSE /\ sock' = sk
               /\ hist' = h
               /\ pc' = [pc EXCEPT ![th] = "h_identify"]
               /\ att' = [att EXCEPT ![th] = 1]
               /\ UNCHANGED <<missed>>
               /\ wire' = NoFrame
    /\ UNCHANGED <<quota, running, ws, sequence, session_id, ackFresh, reconnect_attempts,
                   stack, pend>>

\* op 11: self.last_heartbeat_ack = time.time()
OnAck(th) ==
    /\ Receiving(th)
    /\ sock[Top(th)].hello
    /\ ackFresh' = TRUE
    /\ hist' = [hist EXCEPT !.ackEver = TRUE]
    /\ UNCHANGED <<quota, running, ws, sock, heartbeat_interval, sequence, session_id,
                   reconnect_attempts, pc, stack, missed, att, pend>>
    /\ wire' = NoFrame

\* the status updater thread is started unless one is alive
StartSt == ~StAlive
WithSt(p) == IF StartSt THEN [p EXCEPT !["st"] = StTop] ELSE p

\* op 0 with t = READY: the sequence number and the session id are stored, the
\* status updater thread is started
OnReady(th, s, sid) ==
    /\ Receiving(th)
    /\ sock[Top(th)].ident /\ ~sock[Top(th)].ready
    /\ sequence' = SeqUpdate(s, sequence)
    /\ session_id' = sid
    /\ sock' = [sock EXCEPT ![Top(th)].seen = s, ![Top(th)].ready = TRUE]
    /\ hist' = [hist EXCEPT !.sidOld = FALSE]
    /\ pc' = WithSt(pc)
    /\ UNCHANGED <<quota, running, ws, heartbeat_interval, ackFresh, reconnect_attempts,
                   stack, missed, att, pend>>
    /\ wire' = NoFrame

\* op 0 with t = RESUMED or any other event: only the sequence number is stored
OnDispatch(th, s) ==
    /\ Receiving(th)
    /\ sock[Top(th)].ready
    /\ sequence' = SeqUpdate(s, sequence)
    /\ sock' = [sock EXCEPT ![Top(th)].seen = s]
    /\ UNCHANGED <<quota, running, ws, heartbeat_interval, session_id, ackFresh,
                   reconnect_attempts, pc, stack, missed, att, pend, hist>>
    /\ wire' = NoFrame

\* op 9 or op 7: time.sleep, then resume_or_reconnect()
OnInvalidOrReconnect(th) ==
    /\ Receiving(th)
    /\ sock[Top(th)].hello
    /\ pc' = [pc EXCEPT ![th] = "h_ror"]
    /\ UNCHANGED <<quota, running, ws, sock, heartbeat_interval, sequence, session_id, ackFresh,
                   reconnect_attempts, stack, missed, att, pend, hist>>
    /\ wire' = NoFrame

\* any other opcode: no branch of the if / elif chain is taken, but the sequence
\* number of the frame, if it has one (s # 0), was stored before the chain.  A
\* message json.loads rejects has none (s = 0).
OnIgnored(th, s) ==
    /\ Receiving(th)
    /\ sequence' = SeqUpdate(s, sequence)
    /\ sock' = [sock EXCEPT ![Top(th)].seen = SeqUpdate(s, @)]
    /\ UNCHANGED <<quota, running, ws, heartbeat_interval, session_id, ackFresh,
                   reconnect_attempts, pc, stack, missed, att, pend, hist>>
    /\ wire' = NoFrame

\* ------------------------------------------------------------ resume()
\* resume_or_reconnect(): resume() finds both values and sends (first attempt)
ResumeSend(th) ==
    /\ pc[th] = "h_ror"
    /\ ResumeReady
    /\ IF Connected
       THEN /\ wire' = FrameOf(6, ResumePayload, sock)
            /\ pc' = [pc EXCEPT ![th] = "c_run"]
            /\ UNCHANGED <<att, pend>>
       ELSE /\ pc' = [pc EXCEPT ![th] = "h_resume"]
            /\ att' = [att EXCEPT ![th] = 1]
            /\ pend' = [pend EXCEPT ![th] = ResumePayload]
            /\ wire' = NoFrame
    /\ UNCHANGED <<quota, running, ws, sock, heartbeat_interval, sequence, session_id, ackFresh,
                   reconnect_attempts, stack, missed, hist>>

\* resume() returns False without sending: time.sleep(2), then reconnect()
ResumeUnready(th) ==
    /\ pc[th] = "h_ror"
    /\ ~ResumeReady
    /\ pc' = [pc EXCEPT ![th] = "h_fallback"]
    /\ UNCHANGED <<quota, running, ws, sock, heartbeat_interval, sequence, session_id, ackFresh,
                   reconnect_attempts, stack, missed, att, pend, hist>>
    /\ wire' = NoFrame

\* self.heartbeat_thread = threading.Thread(target=self.heartbeat_loop); start():
\* a step of its own after the is_alive() test, so that other threads act in
\* between.  The new thread enters heartbeat_loop with missed_heartbeats = 0 and
\* tests while self.running.  pc["hb"] follows one heartbeat thread; a thread
\* started while that one is alive is recorded in hist.twoLoops.
HeartbeatStart(th) ==
    /\ pc[th] = "h_start"
    /\ pc' = [pc EXCEPT ![th] = "c_run", !["hb"] = IF HbAlive THEN @ ELSE HbTop]
    /\ missed' = IF HbAlive THEN missed ELSE 0
    /\ hist' = IF HbAlive THEN [hist EXCEPT !.twoLoops = TRUE]
               ELSE [hist EXCEPT !.staleCnt = 0, !.hbCalls = 0]
    /\ UNCHANGED <<quota, running, ws, sock, heartbeat_interval, sequence, session_id,
                   ackFresh, reconnect_attempts, stack, att, pend>>
    /\ wire' = NoFrame

\* ------------------------------------------------------------ send_json, retried
Retrying(th) == pc[th] \in {"h_identify", "h_resume", "hb_send"}

\* a later attempt finds the transport connected: the frame is sent, True
RetrySend(th) ==
    /\ Retrying(th)
    /\ Connected
    /\ CASE pc[th] = "h_identify" ->
             /\ Identified(sock)
             /\ HelloDone(th, [hist EXCEPT !.sidOld = (session_id # None)])
        [] pc[th] = "h_resume" ->
             /\ wire' = FrameOf(6, pend[th], sock)
             /\ pc' = [pc EXCEPT ![th] = "c_run"]
             /\ UNCHANGED <<sock, missed, hist>>
        [] pc[th] = "hb_send" ->
             /\ wire' = FrameOf(1, pend[th], sock)
             /\ pc' = [pc EXCEPT ![th] = HbTop]
             /\ UNCHANGED <<sock, missed, hist>>
    /\ att' = [att EXCEPT ![th] = 0]
    /\ pend' = [pend EXCEPT ![th] = NoPayload]
    /\ UNCHANGED <<quota, running, ws, heartbeat_interval, sequence, session_id, ackFresh,
                   reconnect_attempts, stack>>

\* the attempt fails and another is left: time.sleep(1)
RetryWait(th) ==
    /\ Retrying(th)
    /\ ~Connected
    /\ RetriesLeft(att[th])
    /\ att' = [att EXCEPT ![th] = @ + 1]
    /\ UNCHANGED <<quota, running, ws, sock, heartbeat_interval, sequence, session_id, ackFresh,
                   reconnect_attempts, pc, stack, missed, pend, hist>>
    /\ wire' = NoFrame

\* the last attempt fails: send_json returns False
RetryFail(th) ==
    /\ Retrying(th)
    /\ ~Connected
    /\ ~RetriesLeft(att[th])
    /\ CASE pc[th] = "h_identify" ->
             HelloDone(th, hist)
        [] pc[th] = "h_resume" ->
             /\ pc' = [pc EXCEPT ![th] = "h_fallback"]
             /\ UNCHANGED <<missed, hist>>
        [] pc[th] = "hb_send" ->
             /\ missed' = missed + 1
             /\ pc' = [pc EXCEPT ![th] = HbTop]
             /\ UNCHANGED hist
    /\ att' = [att EXCEPT ![th] = 0]
    /\ pend' = [pend EXCEPT ![th] = NoPayload]
    /\ UNCHANGED <<quota, running, ws, sock, heartbeat_interval, sequence, session_id, ackFresh,
                   reconnect_attempts, stack>>
    /\ wire' = NoFrame

\* ------------------------------------------------------------ reconnect()
\* reconnect(), called by resume_or_reconnect: self.ws.close(), time.sleep(2)
Reconnect(th) ==
    /\ pc[th] = "h_fallback"
    /\ sock' = CloseWs(sock)
    /\ hist' = NoteClose(hist, CloseWs(sock) # sock)
    /\ pc' = [pc EXCEPT ![th] = "r_sleep"]
    /\ UNCHANGED <<quota, running, ws, heartbeat_interval, sequence, session_id, ackFresh,
                   reconnect_attempts, stack, missed, att, pend>>
    /\ wire' = NoFrame

\* after the sleep: self.sequence = None, then connect() and its first iteration
SeqAfterReconnect == 0
ReconnectAttempt(th) ==
    /\ pc[th] = "r_sleep"
    /\ NFrames < MaxFrames
    /\ LoopGuard
    /\ sequence' = SeqAfterReconnect
    /\ OpenNew(th, [stack EXCEPT ![th] = Append(@, 0)])
    /\ UNCHANGED <<running, heartbeat_interval, session_id, ackFresh,
                   reconnect_attempts, missed, att, pend>>

\* ... or connect() returns at once, its while condition being false
ReconnectReturn(th) ==
    /\ pc[th] = "r_sleep"
    /\ ~LoopGuard
    /\ sequence' = SeqAfterReconnect
    /\ pc' = [pc EXCEPT ![th] = Resumed(th, stack)]
    /\ hist' = NoteReturn(hist)
    /\ UNCHANGED <<quota, running, ws, sock, heartbeat_interval, session_id, ackFresh,
                   reconnect_attempts, stack, missed, att, pend>>
    /\ wire' = NoFrame

\* ------------------------------------------------------------ heartbeat_loop
\* time_since_ack > (self.heartbeat_interval / 1000) * 2, after the sleep: an
\* acknowledgement that was stale stays stale, a fresh one may have aged
CanBe(stale) == ackFresh \/ stale

\* missed_heartbeats after the check of this cycle
MissedAfter(stale) == IF stale THEN missed + 1 ELSE 0
\* if missed_heartbeats >= max_missed_heartbeats
TooManyEarly(m) == m >= max_missed_heartbeats - 1
TooMany(m) == m >= max_missed_heartbeats

Bump(n, cap) == Min(n + 1, cap)

\* the cycle finds the acknowledgement stale for the 3rd time running: reconnect()
\* closes self.ws and sleeps
HbReconnect ==
    /\ pc["hb"] = "hb_sleep"
    /\ TooMany(MissedAfter(TRUE))
    /\ ackFresh' = FALSE
    /\ missed' = MissedAfter(TRUE)
    /\ sock' = CloseWs(sock)
    /\ hist' = [NoteClose(hist, CloseWs(sock) # sock) EXCEPT
                   !.staleCnt = Bump(@, max_missed_heartbeats),
                   !.hbCalls = Bump(@, 2)]
    /\ pc' = [pc EXCEPT !["hb"] = "r_sleep"]
    /\ UNCHANGED <<quota, running, ws, heartbeat_interval, sequence, session_id,
                   reconnect_attempts, stack, att, pend>>
    /\ wire' = NoFrame

\* the cycle goes on to send the heartbeat (first attempt of send_json)
HbBeat(stale) ==
    /\ pc["hb"] = "hb_sleep"
    /\ CanBe(stale)
    /\ ~(stale /\ TooMany(MissedAfter(TRUE)))
    /\ ackFresh' = ~stale
    /\ missed' = MissedAfter(stale)
    /\ hist' = [hist EXCEPT !.staleCnt = IF stale THEN Bump(@, max_missed_heartbeats) ELSE 0]
    /\ IF Connected
       THEN /\ wire' = FrameOf(1, HeartbeatPayload, sock)
            /\ pc' = [pc EXCEPT !["hb"] = HbTop]
            /\ UNCHANGED <<att, pend>>
       ELSE /\ pc' = [pc EXCEPT !["hb"] = "hb_send"]
            /\ att' = [att EXCEPT !["hb"] = 1]
            /\ pend' = [pend EXCEPT !["hb"] = HeartbeatPayload]
            /\ wire' = NoFrame
    /\ UNCHANGED <<quota, running, ws, sock, heartbeat_interval, sequence, session_id,
                   reconnect_attempts, stack>>

\* ------------------------------------------------------------ status_updater_loop
\* update_status(): the presence payload carries no session state
StatusPayload == NoPayload

\* after the sleep: update_status() if self.ws is connected, else a warning; then
\* the while condition
StatusBeat ==
    /\ pc["st"] = "st_sleep"
    /\ wire' = IF Connected THEN FrameOf(3, StatusPayload, sock) ELSE NoFrame
    /\ pc' = [pc EXCEPT !["st"] = StTop]
    /\ UNCHANGED <<quota, running, ws, sock, heartbeat_interval, sequence, session_id,
                   ackFresh, reconnect_attempts, stack, missed, att, pend, hist>>

\* ------------------------------------------------------------ stop()
\* self.running = False
StopToggle == ~running
StopRunning == FALSE

\* self.running = False; if self.ws: self.ws.close(), any error of it swallowed
Stop ==
    /\ running' = StopRunning
    /\ sock' = CloseWs(sock)
    /\ hist' = [hist EXCEPT !.stops = Bump(@, 2)]
    /\ UNCHANGED <<quota, ws, heartbeat_interval, sequence, session_id, ackFresh,
                   reconnect_attempts, pc, stack, missed, att, pend>>
    /\ wire' = NoFrame

\* ------------------------------------------------------------ specification
Next ==
    \/ Start
    \/ Stop
    \/ HbReconnect
    \/ \E stale \in BOOLEAN : HbBeat(stale)
    \/ StatusBeat
    \/ \E th \in Threads :
        \/ ConnectCheck(th)
        \/ ConnectAttempt(th)
        \/ ConnectReturn(th)
        \/ ClosedRetry(th)
        \/ ClosedBreak(th)
        \/ ConnectRaises(th)
        \/ on_open(th)
        \/ SockFail(th)
        \/ SockDrop(th)
        \/ \E iv \in Intervals : OnHello(th, iv)
        \/ HeartbeatStart(th)
        \/ OnAck(th)
        \/ \E s \in 1..MaxSeq, sid \in SessionIds : OnReady(th, s, sid)
        \/ \E s \in 1..MaxSeq : OnDispatch(th, s)
        \/ OnInvalidOrReconnect(th)
        \/ \E s \in 0..MaxSeq : OnIgnored(th, s)
        \/ ResumeSend(th)
        \/ ResumeUnready(th)
        \/ RetrySend(th)
        \/ RetryWait(th)
        \/ RetryFail(th)
        \/ Reconnect(th)
        \/ ReconnectAttempt(th)
        \/ ReconnectReturn(th)

Spec == Init /\ [][Next]_vars

\* The connect loop on its own: the connection thread, its transports, stop();
\* no frame ever arrives, so no handshake ever completes.
InitLoop ==
    /\ running = TRUE
    /\ ws = 0
    /\ sock = [s \in Slots |-> NoSock]
    /\ heartbeat_interval = DefaultInterval
    /\ sequence = 0
    /\ session_id = None
    /\ ackFresh = TRUE
    /\ reconnect_attempts = 0
    /\ pc = [th \in Procs |-> IF th = "conn" THEN "idle" ELSE "none"]
    /\ stack = [th \in Threads |-> <<>>]
    /\ missed = 0
    /\ att = [th \in Threads |-> 0]
    /\ pend = [th \in Threads |-> NoPayload]
    /\ quota = LoopConns
    /\ wire = NoFrame
    /\ hist = HistInit

NextLoop ==
    \/ Start
    \/ Stop
    \/ ConnectCheck("conn")
    \/ ConnectAttempt("conn")
    \/ ConnectReturn("conn")
    \/ ClosedRetry("conn")
    \/ ClosedBreak("conn")
    \/ ConnectRaises("conn")
    \/ on_open("conn")
    \/ SockFail("conn")
    \/ SockDrop("conn")

SpecLoop == InitLoop /\ [][NextLoop]_vars

\* A session that never gets ready: the gateway sends Hello and then asks for a
\* reconnect (op 7) or invalidates the session (op 9), and sends nothing else;
\* stop() is not called.  Both threads run, with the attempts of the connect loop
\* on its own.
NextNest ==
    \/ Start
    \/ HbReconnect
    \/ \E stale \in BOOLEAN : HbBeat(stale)
    \/ \E th \in Threads :
        \/ ConnectCheck(th)
        \/ ConnectAttempt(th)
        \/ ConnectReturn(th)
        \/ ClosedRetry(th)
        \/ ConnectRaises(th)
        \/ on_open(th)
        \/ SockFail(th)
        \/ SockDrop(th)
        \/ \E iv \in Intervals : OnHello(th, iv)
        \/ HeartbeatStart(th)
        \/ OnInvalidOrReconnect(th)
        \/ ResumeUnready(th)
        \/ RetrySend(th)
        \/ RetryWait(th)
        \/ RetryFail(th)
        \/ Reconnect(th)
        \/ ReconnectAttempt(th)
        \/ ReconnectReturn(th)

SpecNest == InitLoop /\ [][NextNest]_vars

\* ================================================================ properties

LiveSocks == {s \in Slots : Live(s)}
HbCalledNoAck == hist.hbCalls > 0 /\ ~hist.ackEver

\* C1 (as stated): with no Heartbeat-ACK ever received, heartbeat_loop calls
\* reconnect() only after 3 cycles in a row have found the acknowledgement stale,
\* calls it once, and sends no heartbeat afterwards.
C1_ReconnectAfterThreeStale ==
    /\ HbCalledNoAck => hist.staleCnt >= 3 /\ hist.hbCalls = 1
    /\ ~wire.late

\* C1 (amended): with no Heartbeat-ACK ever received, heartbeat_loop calls
\* reconnect() only when missed_heartbeats, which counts the stale cycles and the
\* failed heartbeat sends, has reached 3, so after at least 2 stale cycles in a
\* row; it calls it once and sends no heartbeat afterwards.
C1_ReconnectAfterThreeMissed ==
    /\ HbCalledNoAck => missed >= 3 /\ hist.staleCnt >= 2 /\ hist.hbCalls = 1
    /\ ~wire.late

\* heartbeat_loop has called reconnect() after only 2 stale cycles, no ACK received
C1_Witness == HbCalledNoAck /\ hist.staleCnt = 2 /\ pc["hb"] = "r_sleep"

\* C2: at most one transport is live, connect() is not running in the connection
\* thread and in the heartbeat thread at once, and no Resume frame is sent while
\* a connection attempt is in progress.
C2_OneConnectLoop ==
    /\ Cardinality(LiveSocks) <= 1
    /\ ~(Len(stack["conn"]) > 0 /\ Len(stack["hb"]) > 0)
    /\ wire.op = 6 => \A s \in Slots : sock[s].st # "unopened"

\* C3: every heartbeat frame carries the last sequence number received on the
\* connection it is sent on, or null if none was received on it.
C3_HeartbeatCarriesOwnSeq == wire.op = 1 => wire.seq = wire.seen

\* C4: a heartbeat frame is sent on a transport only after Hello was received on
\* it and Identify was sent on it; Identify only after Hello was received on it.
C4_HelloIdentifyFirst ==
    /\ wire.op = 1 => wire.hello /\ wire.ident
    /\ wire.op = 2 => wire.hello

C6_AttemptsCapped == hist.tries <= max_reconnect_attempts

\* C7: no more connection attempts are made than one for each transport closed
\* while running, after the first.
C7_OneAttemptPerClose == hist.net <= 1

\* C8 (as stated): each backoff delay is at least the delay waited before it, and
\* at most 30.
C8_DelaysNonDecreasing == hist.mono /\ hist.lastDelay <= 30

\* C8 (amended): each backoff delay is at least the delay waited before it unless
\* on_open reset reconnect_attempts in between, and is at most 30.
C8_DelaysNonDecreasingInRun == hist.monoRun /\ hist.lastDelay <= 30

\* the loop has backed off up to the cap
C8_Witness == hist.lastDelay = 30 /\ reconnect_attempts > 5 /\ hist.monoRun

\* C9: a step that handles a READY dispatch leaves session_id and sequence set.
C9_ReadyStoresSession ==
    [][(\E th \in Threads, s \in 1..MaxSeq, sid \in SessionIds : OnReady(th, s, sid))
        => (session_id' # None /\ sequence' # 0)]_vars

\* READY has been handled on a transport that is not the first of the run: both
\* values are stored
C9_Witness ==
    /\ \E s \in Slots : sock[s].ready
    /\ session_id # None /\ sequence # 0
    /\ quota < MaxConns - 1

\* C10: once a fresh Identify has been sent, session_id does not hold the
\* identifier of the session before it.
C10_IdentifyDiscardsSession == ~(hist.sidOld /\ session_id # None)

\* a call of stop() in this state would change nothing of the session state
StopIsNoOp == StopRunning = running /\ CloseWs(sock) = sock

\* C11: a call of stop() leaves running false, and leaves a state in which a
\* second call, made right after it, changes nothing of the session state: not
\* the flag, not the transports (stop() writes nothing else).
C11_StopIdempotent == [][Stop => ~running' /\ StopIsNoOp']_vars

\* stop() has been called twice; the flag is false and self.ws is closed
C11_Witness ==
    hist.stops = 2 /\ ~running /\ ws # 0 /\ sock[ws].st = "closed"

\* C12: once stop() has returned no new transport is opened and no transport is
\* live, so that no connect loop is kept in run_forever.
C12_StopEndsAll ==
    /\ ~hist.lateOpen
    /\ ~running => LiveSocks = {}

\* C13: a frame is put on the wire only of a transport that exists and is
\* connected; a heartbeat only after the first Hello of the process was received;
\* and there is no heartbeat thread before that Hello.
C13_HeartbeatNeedsConnection ==
    /\ wire.op # 0 => ws # 0 /\ sock[ws].st = "open"
    /\ wire.op = 1 => hist.helloEver
    /\ pc["hb"] # "none" => hist.helloEver

\* a heartbeat is on the wire of the connected transport, after a Hello
C13_Witness == wire.op = 1 /\ ws # 0 /\ sock[ws].st = "open" /\ hist.helloEver

\* the Hello handler of thread th comes to its end in this step: identify() has
\* sent or given up, and the heartbeat thread was started if none was alive
HelloHandled(th) ==
    \/ \E iv \in Intervals : OnHello(th, iv) /\ pc'[th] = "c_run"
    \/ pc[th] = "h_identify" /\ (RetrySend(th) \/ RetryFail(th)) /\ pc'[th] = "c_run"
    \/ HeartbeatStart(th)

\* C14: when the Hello handler ends while running is true, the heartbeat thread
\* is in its send cycle (sleeping before a heartbeat, or sending one).
C14_HelloStartsHeartbeat ==
    [][\A th \in Threads :
          HelloHandled(th) /\ running => pc'["hb"] \in {"hb_sleep", "hb_send"}]_vars

\* thread th is in the op 7 / op 9 handler, resume() not yet returned
InResume(th) == pc[th] \in {"h_ror", "h_resume"}

\* C15 (as stated): while running, the op 7 / op 9 handler falls back to
\* reconnect() only when resume() found session_id or sequence missing, and
\* otherwise ends with one Resume frame sent.
C15_ResumeOrConnect ==
    [][\A th \in Threads :
          /\ InResume(th) /\ pc'[th] = "h_fallback" /\ running =>
                pc[th] = "h_ror" /\ ~(session_id # None /\ sequence # 0) /\ wire'.op = 0
          /\ InResume(th) /\ pc'[th] = "c_run" => wire'.op = 6]_vars

\* C15 (amended): the handler ends in exactly one of two ways.  Either a Resume
\* frame goes out, carrying a session id and a sequence number, and reconnect()
\* is not called; or no Resume frame goes out and reconnect() is called, which
\* closes self.ws.  The second happens when resume() found a value missing and
\* also when both were there but send_json failed on all its attempts.
C15_ResumeOrConnectOrSendFailed ==
    [][\A th \in Threads :
          /\ InResume(th) /\ pc'[th] = "h_fallback" =>
                /\ wire'.op = 0
                /\ \/ pc[th] = "h_ror" /\ ~(session_id # None /\ sequence # 0)
                   \/ pc[th] = "h_resume" /\ att[th] = max_retries - 1
                        /\ ~(ws # 0 /\ sock[ws].st = "open")
          /\ InResume(th) /\ pc'[th] = "c_run" =>
                wire'.op = 6 /\ wire'.sid # None /\ wire'.seq # 0
          /\ InResume(th) => pc'[th] \in {"h_ror", "h_resume", "h_fallback", "c_run"}
          /\ pc[th] = "h_fallback" /\ pc'[th] # "h_fallback" =>
                /\ pc'[th] = "r_sleep" /\ wire'.op = 0
                /\ ws # 0 => sock'[ws].st \notin {"unopened", "open"}]_vars

\* resume() found both values but its send failed 3 times: the handler is about
\* to call reconnect()
C15_Witness ==
    \E th \in Threads :
        /\ pc[th] = "h_fallback" /\ session_id # None /\ sequence # 0 /\ wire.op = 0
        /\ running

\* C16: handling a frame with an unrecognized opcode, or a malformed message,
\* sends nothing, starts no thread and leaves the session state as it was.
C16_UnknownFrameIgnored ==
    [][(\E th \in Threads, s \in 0..MaxSeq : OnIgnored(th, s)) =>
          /\ UNCHANGED <<session_id, sequence, heartbeat_interval, ackFresh,
                         reconnect_attempts, running, ws, pc>>
          /\ \A w \in Slots : sock'[w].st = sock[w].st
          /\ wire'.op = 0]_vars

\* C17: a presence update frame is sent only on a transport on which READY has
\* been received.
C17_StatusOnlyWhenReady == wire.op = 3 => wire.ready

\* C18: when connect() leaves its loop because reconnect_attempts has reached
\* max_reconnect_attempts, it emits a log entry of level warning or higher.
C18_ExhaustionLogged == hist.capLog \in {"unreached", "warning", "error", "critical"}

\* C19: an Identify frame is sent only on a transport on which none was sent
\* before.
C19_IdentifyOnce == wire.op = 2 => ~wire.ident

\* C20: reconnect_attempts stays between 0 and max_reconnect_attempts.
C20_AttemptsInRange ==
    reconnect_attempts >= 0 /\ reconnect_attempts <= max_reconnect_attempts

\* a thread handles (or has handled) Hello on its connection while the heartbeat
\* thread is alive
HelloUnderLoop(th) ==
    pc[th] = "c_run" /\ Top(th) # 0 /\ sock[Top(th)].hello /\ HbAlive

\* C21: at most one thread executes heartbeat_loop at any time: no heartbeat
\* thread is ever started while another is alive, whatever the order of Hello
\* frames and the interleaving of the handlers of successive or overlapping
\* connections; a handler that found no thread alive still finds none alive when
\* it starts one.
C21_OneHeartbeatLoop ==
    /\ ~hist.twoLoops
    /\ \A th \in Threads : pc[th] = "h_start" => ~HbAlive

\* Hello was handled on two overlapping connections, one run by the connection
\* thread and one by the heartbeat thread itself, and one loop exists
C21_Witness ==
    /\ HelloUnderLoop("conn") /\ HelloUnderLoop("hb")
    /\ Top("conn") # Top("hb")
    /\ ~hist.twoLoops

====
